---- MODULE Spec2Model ----
(***************************************************************************)
(* A model of zod-web-api (main.ts): the conversion of flat key/value      *)
(* payloads (URLSearchParams, FormData, Request) into nested records, the  *)
(* path parser and formatter, and the two value transforms zt.findBy and   *)
(* zt.json.                                                                *)
(*                                                                         *)
(* JavaScript strings are sequences of one-character strings, so that the  *)
(* split, the regular expression, JSON.parse and String.includes are       *)
(* computed character by character.  JavaScript values are tagged records. *)
(* The module is an ES module and therefore runs in strict mode.           *)
(***************************************************************************)
EXTENDS Integers, Sequences, FiniteSets, TLC

(***************************************************************************)
(* Bounds of the model.                                                    *)
(***************************************************************************)
MaxEntries == 3   \* entries of a payload that repeats one key
MaxMixed == 3     \* entries of a payload over several keys
MaxNested == 3    \* entries of a payload of keys name[i].field
MaxForm == 2      \* form entries of a request
MaxQuery == 1     \* query entries of a request
MaxTokens == 2    \* dot-separated tokens of a path string
MaxItems == 3     \* items of a findBy collection

(***************************************************************************)
(* Characters and strings.                                                 *)
(***************************************************************************)
Digits == <<"0", "1", "2", "3", "4", "5", "6", "7", "8", "9">>

DigitChars == {Digits[i] : i \in 1..10}

\* the class \w of the regular expression: [A-Za-z0-9_]
WordChars ==
  DigitChars \cup {"_"} \cup
  {"a", "b", "c", "d", "e", "f", "g", "h", "i", "j", "k", "l", "m",
   "n", "o", "p", "q", "r", "s", "t", "u", "v", "w", "x", "y", "z",
   "A", "B", "C", "D", "E", "F", "G", "H", "I", "J", "K", "L", "M",
   "N", "O", "P", "Q", "R", "S", "T", "U", "V", "W", "X", "Y", "Z"}

DigitVal(c) == CHOOSE d \in 0..9 : Digits[d + 1] = c

\* Number(digits) of a string of decimal digits
RECURSIVE Number(_)
Number(ds) ==
  IF ds = <<>> THEN 0
  ELSE Number(SubSeq(ds, 1, Len(ds) - 1)) * 10 + DigitVal(ds[Len(ds)])

\* String(n) of a non-negative integer: `${path}` in formatPaths
RECURSIVE NumberToString(_)
NumberToString(n) ==
  IF n < 10 THEN <<Digits[n + 1]>>
  ELSE NumberToString(n \div 10) \o <<Digits[(n % 10) + 1]>>

\* String.prototype.split with a one-character separator
RECURSIVE Split(_, _)
Split(s, sep) ==
  IF \A i \in 1..Len(s) : s[i] # sep THEN <<s>>
  ELSE LET i == CHOOSE j \in 1..Len(s) :
                  s[j] = sep /\ \A k \in 1..(j - 1) : s[k] # sep
       IN  <<SubSeq(s, 1, i - 1)>> \o Split(SubSeq(s, i + 1, Len(s)), sep)

\* String.prototype.includes
Includes(s, sub) ==
  \E i \in 0..(Len(s) - Len(sub)) : SubSeq(s, i + 1, i + Len(sub)) = sub

(***************************************************************************)
(* JavaScript values.                                                      *)
(***************************************************************************)
Undefined == [t |-> "undefined"]
Null == [t |-> "null"]
Bool(b) == [t |-> "boolean", b |-> b]
Num(n) == [t |-> "number", n |-> n]
Str(s) == [t |-> "string", s |-> s]
\* a hole of a sparse array: reads as undefined
Hole == [t |-> "hole"]
EmptyMap == [k \in {} |-> Undefined]
\* a plain object: o maps property names to values
Obj(o) == [t |-> "object", o |-> o]
\* an array: e are the indexed elements, p the named properties
ArrP(e, p) == [t |-> "array", e |-> e, p |-> p]
Arr(e) == ArrP(e, EmptyMap)
\* a File: p are the properties assigned to the handle
FileP(name, size, p) == [t |-> "file", name |-> name, size |-> size, p |-> p]
File(name, size) == FileP(name, size, EmptyMap)
\* a function object: p are the properties assigned to it
Fn(p) == [t |-> "function", p |-> p]
\* the RefinementCtx that zod hands to a transform as its second argument:
\* { addIssue, get path() }; o are its data properties
Ctx(o) == [t |-> "ctx", o |-> o]

IsNullish(v) == v.t \in {"undefined", "null"}
IsArray(v) == v.t = "array"

\* !v
Falsy(v) ==
  \/ v.t \in {"undefined", "null"}
  \/ v.t = "boolean" /\ ~v.b
  \/ v.t = "number" /\ v.n = 0
  \/ v.t = "string" /\ v.s = <<>>

MapSet(m, k, v) == [x \in (DOMAIN m) \cup {k} |-> IF x = k THEN v ELSE m[x]]

(***************************************************************************)
(* getPaths and formatPaths.                                               *)
(***************************************************************************)
\* the first position at or after i that holds no character of class cls
RECURSIVE RunEnd(_, _, _)
RunEnd(key, i, cls) ==
  IF i <= Len(key) /\ key[i] \in cls THEN RunEnd(key, i + 1, cls) ELSE i

\* /(\w*)\[(\d+)\]/ tried at start position s: the greedy \w* takes the
\* whole run of word characters (a shorter run is followed by a word
\* character, never by "["), and likewise \d+ the whole run of digits
MatchAt(key, s) ==
  LET e == RunEnd(key, s, WordChars)
      d == RunEnd(key, e + 1, DigitChars)
  IN  /\ e <= Len(key) /\ key[e] = "["
      /\ d > e + 1
      /\ d <= Len(key) /\ key[d] = "]"

\* pattern.exec(key): the leftmost match, with its two groups
PatternExec(key) ==
  IF \E s \in 1..Len(key) : MatchAt(key, s)
  THEN LET s == CHOOSE x \in 1..Len(key) :
                  MatchAt(key, x) /\ \A y \in 1..(x - 1) : ~MatchAt(key, y)
           e == RunEnd(key, s, WordChars)
           d == RunEnd(key, e + 1, DigitChars)
       IN  [matched |-> TRUE, g1 |-> SubSeq(key, s, e - 1),
            g2 |-> SubSeq(key, e + 1, d - 1)]
  ELSE [matched |-> FALSE, g1 |-> <<>>, g2 |-> <<>>]

\* the callback of flatMap in getPaths
PathsOfToken(key) ==
  LET matches == PatternExec(key)
  IN  IF ~matches.matched THEN <<Str(key)>>
      ELSE IF matches.g1 = <<>> THEN <<Num(Number(matches.g2))>>
      ELSE <<Str(matches.g1), Num(Number(matches.g2))>>

RECURSIVE FlatMapTokens(_)
FlatMapTokens(tokens) ==
  IF tokens = <<>> THEN <<>>
  ELSE PathsOfToken(Head(tokens)) \o FlatMapTokens(Tail(tokens))

\* getPaths without the test of an empty name
getPathsNoEmptyTest(name) == FlatMapTokens(Split(name, "."))

getPaths(name) ==
  IF name = <<>> THEN <<>> ELSE FlatMapTokens(Split(name, "."))

\* FormatStep without the case of an empty accumulated name
FormatStepAlwaysDot(name, path) ==
  IF path.t = "number" THEN name \o <<"[">> \o NumberToString(path.n) \o <<"]">>
  ELSE name \o <<".">> \o path.s

\* one step of the reduce in formatPaths
FormatStep(name, path) ==
  IF path.t = "number" THEN name \o <<"[">> \o NumberToString(path.n) \o <<"]">>
  ELSE IF name = <<>> \/ path.s = <<>> THEN name \o path.s
  ELSE name \o <<".">> \o path.s

RECURSIVE FormatFrom(_, _)
FormatFrom(name, paths) ==
  IF paths = <<>> THEN name
  ELSE FormatFrom(FormatStep(name, Head(paths)), Tail(paths))

formatPaths(paths) == FormatFrom(<<>>, paths)

(***************************************************************************)
(* JSON.parse, for texts without white space, escapes, fractions and       *)
(* exponents (the raw values of the model contain none of them).           *)
(* A parse result is [ok, v, i]: success, the value, the next position.    *)
(***************************************************************************)
ParseFail == [ok |-> FALSE, v |-> Undefined, i |-> 0]

StartsWith(s, i, lit) ==
  i + Len(lit) - 1 <= Len(s) /\ SubSeq(s, i, i + Len(lit) - 1) = lit

\* the position of the closing quote of a string that opens at i, or 0
RECURSIVE CloseQuote(_, _)
CloseQuote(s, i) ==
  IF i > Len(s) \/ s[i] = "\\" THEN 0
  ELSE IF s[i] = "\"" THEN i
  ELSE CloseQuote(s, i + 1)

ParseString(s, i) ==
  IF i <= Len(s) /\ s[i] = "\"" /\ CloseQuote(s, i + 1) # 0
  THEN LET c == CloseQuote(s, i + 1)
       IN  [ok |-> TRUE, v |-> Str(SubSeq(s, i + 1, c - 1)), i |-> c + 1]
  ELSE ParseFail

\* -? (0 | [1-9][0-9]*)
ParseNumber(s, i) ==
  LET neg == i <= Len(s) /\ s[i] = "-"
      b == IF neg THEN i + 1 ELSE i
      d == RunEnd(s, b, DigitChars)
  IN  IF d = b \/ (s[b] = "0" /\ d > b + 1) THEN ParseFail
      ELSE LET n == Number(SubSeq(s, b, d - 1))
           IN  [ok |-> TRUE, v |-> Num(IF neg THEN 0 - n ELSE n), i |-> d]

RECURSIVE ParseValue(_, _)
RECURSIVE ParseElements(_, _, _)
RECURSIVE ParseMembers(_, _, _)

ParseValue(s, i) ==
  IF i > Len(s) THEN ParseFail
  ELSE IF StartsWith(s, i, <<"t", "r", "u", "e">>)
    THEN [ok |-> TRUE, v |-> Bool(TRUE), i |-> i + 4]
  ELSE IF StartsWith(s, i, <<"f", "a", "l", "s", "e">>)
    THEN [ok |-> TRUE, v |-> Bool(FALSE), i |-> i + 5]
  ELSE IF StartsWith(s, i, <<"n", "u", "l", "l">>)
    THEN [ok |-> TRUE, v |-> Null, i |-> i + 4]
  ELSE IF s[i] = "\"" THEN ParseString(s, i)
  ELSE IF s[i] = "[" THEN
    IF i + 1 <= Len(s) /\ s[i + 1] = "]"
    THEN [ok |-> TRUE, v |-> Arr(<<>>), i |-> i + 2]
    ELSE ParseElements(s, i + 1, <<>>)
  ELSE IF s[i] = "{" THEN
    IF i + 1 <= Len(s) /\ s[i + 1] = "}"
    THEN [ok |-> TRUE, v |-> Obj(EmptyMap), i |-> i + 2]
    ELSE ParseMembers(s, i + 1, EmptyMap)
  ELSE ParseNumber(s, i)

\* the elements of an array from position i on, acc the elements so far
ParseElements(s, i, acc) ==
  LET r == ParseValue(s, i)
  IN  IF ~r.ok \/ r.i > Len(s) THEN ParseFail
      ELSE IF s[r.i] = "]"
        THEN [ok |-> TRUE, v |-> Arr(Append(acc, r.v)), i |-> r.i + 1]
      ELSE IF s[r.i] = "," THEN ParseElements(s, r.i + 1, Append(acc, r.v))
      ELSE ParseFail

\* the members of an object from position i on; a repeated name keeps the
\* last value
ParseMembers(s, i, acc) ==
  LET k == ParseString(s, i)
  IN  IF ~k.ok \/ k.i > Len(s) \/ s[k.i] # ":" THEN ParseFail
      ELSE LET r == ParseValue(s, k.i + 1)
           IN  IF ~r.ok \/ r.i > Len(s) THEN ParseFail
               ELSE IF s[r.i] = "}"
                 THEN [ok |-> TRUE, v |-> Obj(MapSet(acc, k.v.s, r.v)),
                       i |-> r.i + 1]
               ELSE IF s[r.i] = ","
                 THEN ParseMembers(s, r.i + 1, MapSet(acc, k.v.s, r.v))
               ELSE ParseFail

\* JSON.parse(string): ok is FALSE where JSON.parse throws a SyntaxError
JSONParse(string) ==
  LET r == ParseValue(string, 1)
  IN  IF r.ok /\ r.i = Len(string) + 1 THEN r ELSE ParseFail

safeParseJSON(string) ==
  LET r == JSONParse(string) IN IF r.ok THEN r.v ELSE Str(string)

(***************************************************************************)
(* Property access.  Property names inherited from the prototypes          *)
(* (toString, constructor, __proto__, ...) are not among the keys of the   *)
(* model and read as undefined.                                            *)
(***************************************************************************)
sLength == <<"l", "e", "n", "g", "t", "h">>
sName == <<"n", "a", "m", "e">>
sSize == <<"s", "i", "z", "e">>
sPath == <<"p", "a", "t", "h">>
sAddIssue == <<"a", "d", "d", "I", "s", "s", "u", "e">>

\* the property name of a path segment (a number is converted to a string)
PropName(key) == IF key.t = "number" THEN NumberToString(key.n) ELSE key.s

\* an array index is the canonical decimal form of a non-negative integer
IsIndexName(name) ==
  /\ name # <<>>
  /\ \A i \in 1..Len(name) : name[i] \in DigitChars
  /\ NumberToString(Number(name)) = name

MapGet(m, name) == IF name \in DOMAIN m THEN m[name] ELSE Undefined

\* pointer[key]
Get(pointer, key) ==
  LET name == PropName(key)
  IN  CASE pointer.t = "object" -> MapGet(pointer.o, name)
        [] pointer.t = "ctx" ->
             IF name = sPath THEN Arr(<<>>) ELSE MapGet(pointer.o, name)
        [] pointer.t = "array" ->
             IF IsIndexName(name)
             THEN LET i == Number(name)
                  IN  IF i < Len(pointer.e) /\ pointer.e[i + 1] # Hole
                      THEN pointer.e[i + 1] ELSE Undefined
             ELSE IF name = sLength THEN Num(Len(pointer.e))
             ELSE MapGet(pointer.p, name)
        [] pointer.t = "file" ->
             IF name = sName THEN Str(pointer.name)
             ELSE IF name = sSize THEN Num(pointer.size)
             ELSE MapGet(pointer.p, name)
        [] pointer.t = "function" -> MapGet(pointer.p, name)
        [] pointer.t = "string" ->
             IF IsIndexName(name) /\ Number(name) < Len(pointer.s)
             THEN Str(<<pointer.s[Number(name) + 1]>>)
             ELSE IF name = sLength THEN Num(Len(pointer.s))
             ELSE Undefined
        [] OTHER -> Undefined

SetOk(v) == [threw |-> FALSE, v |-> v]
SetThrew(v) == [threw |-> TRUE, v |-> v]

\* the elements of an array after array[i] = v
SetIndex(e, i, v) ==
  [j \in 1..(IF i + 1 > Len(e) THEN i + 1 ELSE Len(e)) |->
     IF j = i + 1 THEN v ELSE IF j <= Len(e) THEN e[j] ELSE Hole]

\* the elements of an array after array.length = n
SetLength(e, n) == [j \in 1..n |-> IF j <= Len(e) THEN e[j] ELSE Hole]

\* pointer[key] = v in strict mode: the pointer after the assignment, or
\* threw (TypeError on a primitive or on a property with a getter only,
\* RangeError on an invalid array length)
Set(pointer, key, v) ==
  LET name == PropName(key)
  IN  CASE pointer.t = "object" -> SetOk(Obj(MapSet(pointer.o, name, v)))
        [] pointer.t = "ctx" ->
             IF name = sPath THEN SetThrew(pointer)
             ELSE SetOk(Ctx(MapSet(pointer.o, name, v)))
        [] pointer.t = "array" ->
             IF IsIndexName(name)
             THEN SetOk(ArrP(SetIndex(pointer.e, Number(name), v), pointer.p))
             ELSE IF name = sLength
             THEN IF v.t = "number" /\ v.n >= 0
                  THEN SetOk(ArrP(SetLength(pointer.e, v.n), pointer.p))
                  ELSE SetThrew(pointer)
             ELSE SetOk(ArrP(pointer.e, MapSet(pointer.p, name, v)))
        [] pointer.t = "file" ->
             IF name \in {sName, sSize} THEN SetThrew(pointer)
             ELSE SetOk(FileP(pointer.name, pointer.size,
                              MapSet(pointer.p, name, v)))
        [] pointer.t = "function" -> SetOk(Fn(MapSet(pointer.p, name, v)))
        [] OTHER -> SetThrew(pointer)

(***************************************************************************)
(* toRecord and setValue.                                                  *)
(***************************************************************************)
\* prev.concat(next): a new array of the elements of prev (holes kept) and
\* then the elements of next when next is an array, next itself otherwise
Concat(prev, next) ==
  Arr(prev.e \o (IF IsArray(next) THEN next.e ELSE <<next>>))

\* the callback that toRecord passes to setValue
Merge(prev, next) ==
  IF Falsy(prev) THEN next
  ELSE IF Falsy(next) THEN prev
  ELSE IF IsArray(prev) THEN Concat(prev, next)
  ELSE Arr(<<prev, next>>)

\* the value of next when toRecord calls setValue
Coerce(value) ==
  LET absent == IF value.t = "string" THEN value.s = <<>>
                ELSE value.name = <<>> /\ value.size = 0
  IN  IF absent THEN Undefined
      ELSE IF value.t = "string" THEN safeParseJSON(value.s)
      ELSE value

\* the container that setValue creates for a missing intermediate node
NewContainer(next) == IF next.t = "number" THEN Arr(<<>>) ELSE Obj(EmptyMap)

\* the loop of setValue from position index on (index counts from 1):
\* the pointer after the iterations, or threw, and the number of calls of
\* valueFn
RECURSIVE Walk(_, _, _, _)
Walk(pointer, paths, index, next) ==
  IF IsNullish(pointer) \/ index > Len(paths)
  THEN [threw |-> FALSE, v |-> pointer, calls |-> 0]
  ELSE LET key == paths[index]
           cur == Get(pointer, key)
           newValue == IF index # Len(paths)
                       THEN IF IsNullish(cur) THEN NewContainer(paths[index + 1])
                            ELSE cur
                       ELSE Merge(cur, next)
           st == Set(pointer, key, newValue)
       IN  IF index = Len(paths)
           THEN [threw |-> st.threw, v |-> st.v, calls |-> 1]
           ELSE IF st.threw THEN [threw |-> TRUE, v |-> st.v, calls |-> 0]
           ELSE LET sub == Walk(Get(st.v, key), paths, index + 1, next)
                IN  [threw |-> sub.threw, v |-> Set(st.v, key, sub.v).v,
                     calls |-> sub.calls]

setValue(target, name, next) == Walk(target, getPaths(name), 1, next)

\* one iteration of the loop of toRecord
ToRecordStep(record, entry) == setValue(record, entry.key, Coerce(entry.value))

\* toRecord(payload, record): the record it returns, or threw
RECURSIVE toRecord(_, _)
toRecord(payload, record) ==
  IF payload = <<>> THEN SetOk(record)
  ELSE LET st == ToRecordStep(record, Head(payload))
       IN  IF st.threw THEN SetThrew(st.v) ELSE toRecord(Tail(payload), st.v)

(***************************************************************************)
(* The inputs of the model.  An entry is [key, value]: the key a string,   *)
(* the value a string or a File.                                           *)
(***************************************************************************)
Entry(k, v) == [key |-> k, value |-> v]

SeqsUpTo(S, n) == UNION {[1..k -> S] : k \in 0..n}
NonEmptySeqsUpTo(S, n) == UNION {[1..k -> S] : k \in 1..n}

\* the raw values of a payload that repeats one key
RawStrings ==
  { <<>>, <<"x">>, <<"0">>, <<"2", "3">>, <<"f", "a", "l", "s", "e">>,
    <<"n", "u", "l", "l">>, <<"[", "1", ",", "2", "]">> }
EmptyFile == File(<<>>, 0)
RawFiles == {EmptyFile, File(<<"f">>, 1)}
RawValues == {Str(s) : s \in RawStrings} \cup RawFiles

\* a, a[0], a.b, t[1].l
SameKeys ==
  { <<"a">>, <<"a", "[", "0", "]">>, <<"a", ".", "b">>,
    <<"t", "[", "1", "]", ".", "l">> }

\* keys name[i].field, built from their three parts
NestedNames == {<<"a">>, sPath}
NestedIndexes == {<<"0">>, <<"1">>, <<"0", "1">>}
NestedFields == {<<"b">>, <<"c">>}
NestedKey(name, digits, field) ==
  name \o <<"[">> \o digits \o <<"]", ".">> \o field
NestedValues == {Str(<<"x">>), Str(<<"2", "3">>)}
NestedEntries(name) ==
  {Entry(NestedKey(name, d, f), v) :
     d \in NestedIndexes, f \in NestedFields, v \in NestedValues}

\* the empty key, a, a.b, a[0], a[0].b, path, addIssue
MixedKeys ==
  { <<>>, <<"a">>, <<"a", ".", "b">>, <<"a", "[", "0", "]">>,
    <<"a", "[", "0", "]", ".", "b">>, sPath, sAddIssue }
MixedValues == {Str(<<"1">>), Str(<<"n", "u", "l", "l">>)}
MixedEntries ==
  {Entry(k, v) : k \in MixedKeys, v \in MixedValues}
    \cup {Entry(<<"a">>, Str(<<"x">>)), Entry(<<"a", ".", "b">>, Str(<<>>))}

\* the entries of a request: its form and its URL
RequestKeys == {<<"q">>, <<"u">>}
FormValues == {Str(<<"f">>), Str(<<"0">>)}
QueryValues == {Str(<<"g">>), Str(<<"0">>)}
FormEntries == {Entry(k, v) : k \in RequestKeys, v \in FormValues}
QueryEntries == {Entry(k, v) : k \in RequestKeys, v \in QueryValues}

\* request.headers.get("Content-Type"): null when the header is missing
sMultipart ==
  <<"m", "u", "l", "t", "i", "p", "a", "r", "t", "/",
    "f", "o", "r", "m", "-", "d", "a", "t", "a">>
ContentTypes ==
  { Null,
    Str(<<>>),
    Str(sMultipart \o <<";", " ", "b", "o", "u", "n", "d", "a", "r", "y", "=", "x">>),
    Str(<<"M", "u", "l", "t", "i", "p", "a", "r", "t", "/",
          "F", "o", "r", "m", "-", "D", "a", "t", "a">>),
    Str(<<"a", "p", "p", "l", "i", "c", "a", "t", "i", "o", "n", "/",
          "j", "s", "o", "n">>) }

\* a request: its Content-Type, the entries of its body (bodyOk: the body
\* can be decoded as form data) and the entries of its URL
Request(contentType, form, bodyOk, query) ==
  [contentType |-> contentType, form |-> form, bodyOk |-> bodyOk,
   query |-> query]

(***************************************************************************)
(* The state: one call of parseQueryAsync, parseFormDataAsync or           *)
(* parseRequestAsync.                                                      *)
(***************************************************************************)
VARIABLES
  api,        \* the function that was called
  arg,        \* the type of its value argument
  request,    \* the request (or the collections) behind the argument
  pc,         \* where the call is
  payload,    \* the entries that toRecord iterates over
  idx,        \* the number of entries that toRecord has consumed
  record,     \* the second argument of toRecord
  before,     \* the record when the last iteration of toRecord began
  valueFnCalls, \* the calls of the callback of setValue in that iteration
  bodyReads,  \* the number of calls of request.formData()
  pathName,   \* the argument name of getPaths
  pathList,   \* the result of getPaths, the argument of formatPaths
  pathText,   \* the result of formatPaths
  tValue,     \* the value given to a transform of zt
  tParam,     \* the parameters of zt.findBy or zt.json
  issues,     \* the number of calls of ctx.addIssue by the transform
  innerCalls, \* the number of calls of schema.parse by zt.json
  tResult     \* what the transform returned

callVars ==
  <<api, arg, request, payload, idx, record, before, valueFnCalls, bodyReads>>
pathVars == <<pathName, pathList, pathText>>
helperVars == <<tValue, tParam, issues, innerCalls, tResult>>
vars == <<pc, callVars, pathVars, helperVars>>

\* z.instanceof(...).transform(toRecord): zod calls the transform as
\* toRecord(value, ctx), so that the parameter record is the RefinementCtx
\* and its default {} is not used
TransformArg == Ctx(sAddIssue :> Fn(EmptyMap))

\* containsFormData without the test of the media type
containsFormDataNoIncludes(req) == ~Falsy(req.contentType)

containsFormData(req) ==
  LET contentType == req.contentType
  IN  ~Falsy(contentType) /\ Includes(contentType.s, sMultipart)

InitCall ==
  /\ pc = api
  /\ payload = <<>>
  /\ idx = 0
  /\ record = Undefined
  /\ before = Undefined
  /\ valueFnCalls = 0
  /\ bodyReads = 0

\* no call of getPaths or formatPaths
InitNoPaths == pathName = <<>> /\ pathList = <<>> /\ pathText = <<>>

\* no call of a transform of zt
InitNoHelper ==
  /\ tValue = Undefined
  /\ tParam = Undefined
  /\ issues = 0
  /\ innerCalls = 0
  /\ tResult = Undefined

\* parseFormDataAsync of a form that repeats one key
InitSame ==
  /\ api = "parseFormDataAsync"
  /\ arg = "FormData"
  /\ \E k \in SameKeys, vs \in NonEmptySeqsUpTo(RawValues, MaxEntries) :
       request = Request(Str(sMultipart),
                         [i \in 1..Len(vs) |-> Entry(k, vs[i])], TRUE, <<>>)

\* parseQueryAsync of entries name[i].field of one name
InitNested ==
  /\ api = "parseQueryAsync"
  /\ arg = "URLSearchParams"
  /\ \E name \in NestedNames :
       \E es \in NonEmptySeqsUpTo(NestedEntries(name), MaxNested) :
         request = Request(Null, <<>>, TRUE, es)

\* parseQueryAsync of entries over several keys
InitMixed ==
  /\ api = "parseQueryAsync"
  /\ arg = "string"
  /\ \E es \in NonEmptySeqsUpTo(MixedEntries, MaxMixed) :
       request = Request(Null, <<>>, TRUE, es)

\* parseRequestAsync or parseFormDataAsync of a Request
InitRequest ==
  /\ api \in {"parseRequestAsync", "parseFormDataAsync"}
  /\ arg = "Request"
  /\ \E ct \in ContentTypes, ok \in BOOLEAN,
        form \in SeqsUpTo(FormEntries, MaxForm),
        query \in SeqsUpTo(QueryEntries, MaxQuery) :
       request = Request(ct, form, ok, query)

Init ==
  /\ InitSame \/ InitNested \/ InitMixed \/ InitRequest
  /\ InitCall /\ InitNoPaths /\ InitNoHelper

\* parseRequestAsync up to its await (or to its delegation)
ParseRequestAsync ==
  /\ pc = "parseRequestAsync"
  /\ pc' = IF ~containsFormData(request) THEN "parseQueryAsync"
           ELSE "formData"
  /\ UNCHANGED <<api, arg, request, payload, idx, record, bodyReads>>
  /\ UNCHANGED <<before, valueFnCalls>>
  /\ UNCHANGED <<pathVars, helperVars>>

\* parseRequestAsync from request.formData() on: the query entries are
\* appended to the form and parseFormDataAsync is called with the FormData
RequestFormData ==
  /\ pc = "formData"
  /\ bodyReads' = bodyReads + 1
  /\ IF request.bodyOk
     THEN /\ payload' = request.form \o request.query
          /\ arg' = "FormData"
          /\ pc' = "parseFormDataAsync"
     ELSE /\ pc' = "threw"
          /\ UNCHANGED <<payload, arg>>
  /\ UNCHANGED <<api, request, idx, record, before, valueFnCalls>>
  /\ UNCHANGED <<pathVars, helperVars>>

\* parseQueryAsync up to the call of toRecord by zod
ParseQueryAsync ==
  /\ pc = "parseQueryAsync"
  /\ payload' = request.query
  /\ record' = TransformArg
  /\ idx' = 0
  /\ pc' = "toRecord"
  /\ UNCHANGED <<api, arg, request, bodyReads, before, valueFnCalls>>
  /\ UNCHANGED <<pathVars, helperVars>>

\* parseFormDataAsync up to the call of toRecord by zod
ParseFormDataAsync ==
  /\ pc = "parseFormDataAsync"
  /\ IF arg = "Request"
     THEN /\ bodyReads' = bodyReads + 1
          /\ IF request.bodyOk
             THEN /\ payload' = request.form
                  /\ record' = TransformArg
                  /\ pc' = "toRecord"
             ELSE /\ pc' = "threw"
                  /\ UNCHANGED <<payload, record>>
     ELSE /\ record' = TransformArg
          /\ pc' = "toRecord"
          /\ payload' = IF api = "parseRequestAsync" THEN payload
                        ELSE request.form
          /\ UNCHANGED bodyReads
  /\ idx' = 0
  /\ UNCHANGED <<api, arg, request, before, valueFnCalls>>
  /\ UNCHANGED <<pathVars, helperVars>>

\* one iteration of the loop of toRecord
ToRecordIterate ==
  /\ pc = "toRecord"
  /\ idx < Len(payload)
  /\ LET st == ToRecordStep(record, payload[idx + 1])
     IN  /\ record' = st.v
         /\ before' = record
         /\ valueFnCalls' = st.calls
         /\ pc' = IF st.threw THEN "threw" ELSE pc
         /\ idx' = IF st.threw THEN idx ELSE idx + 1
  /\ UNCHANGED <<api, arg, request, payload, bodyReads>>
  /\ UNCHANGED <<pathVars, helperVars>>

\* return record: zod pipes the record into the schema
ToRecordReturn ==
  /\ pc = "toRecord"
  /\ idx = Len(payload)
  /\ pc' = "parse"
  /\ UNCHANGED <<api, arg, request, payload, idx, record, bodyReads>>
  /\ UNCHANGED <<before, valueFnCalls>>
  /\ UNCHANGED <<pathVars, helperVars>>

Next ==
  \/ ParseRequestAsync
  \/ RequestFormData
  \/ ParseQueryAsync
  \/ ParseFormDataAsync
  \/ ToRecordIterate
  \/ ToRecordReturn

Spec == Init /\ [][Next]_vars

\* the calls on a Request alone
InitRequestCall == InitRequest /\ InitCall /\ InitNoPaths /\ InitNoHelper

SpecRequest == InitRequestCall /\ [][Next]_vars

(***************************************************************************)
(* getPaths followed by formatPaths, on path strings of up to MaxTokens    *)
(* tokens.                                                                 *)
(***************************************************************************)
\* a, b, a[0], b[12], [0], a[01], x-y[1], a[0][1], a[0]b, a[x]
PathTokens ==
  { <<"a">>, <<"b">>, <<"a", "[", "0", "]">>, <<"b", "[", "1", "2", "]">>,
    <<"[", "0", "]">>, <<"a", "[", "0", "1", "]">>,
    <<"x", "-", "y", "[", "1", "]">>,
    <<"a", "[", "0", "]", "[", "1", "]">>, <<"a", "[", "0", "]", "b">>,
    <<"a", "[", "x", "]">> }

\* the tokens joined by "."
RECURSIVE JoinTokens(_)
JoinTokens(tokens) ==
  IF Len(tokens) = 1 THEN tokens[1]
  ELSE tokens[1] \o <<".">> \o JoinTokens(Tail(tokens))

PathStrings ==
  {<<>>} \cup {JoinTokens(ts) : ts \in NonEmptySeqsUpTo(PathTokens, MaxTokens)}

InitPaths ==
  /\ api = "getPaths"
  /\ pc = "getPaths"
  /\ pathName \in PathStrings
  /\ pathList = <<>>
  /\ pathText = <<>>
  /\ arg = "string"
  /\ request = Undefined
  /\ payload = <<>>
  /\ idx = 0
  /\ record = Undefined
  /\ before = Undefined
  /\ valueFnCalls = 0
  /\ bodyReads = 0
  /\ InitNoHelper

GetPaths ==
  /\ pc = "getPaths"
  /\ pathList' = getPaths(pathName)
  /\ pc' = "formatPaths"
  /\ UNCHANGED <<callVars, pathName, pathText, helperVars>>

FormatPaths ==
  /\ pc = "formatPaths"
  /\ pathText' = formatPaths(pathList)
  /\ pc' = "done"
  /\ UNCHANGED <<callVars, pathName, pathList, helperVars>>

NextPaths == GetPaths \/ FormatPaths

SpecPaths == InitPaths /\ [][NextPaths]_vars

(***************************************************************************)
(* The transforms zt.findBy and zt.json.                                   *)
(***************************************************************************)
\* z.NEVER
Never == [t |-> "never"]

sId == <<"i", "d">>
sTom == <<"T", "o", "m">>
sAnn == <<"A", "n", "n">>

Item(id, nm) == Obj((sId :> Num(id)) @@ (sName :> nm))

\* the items of a collection: two of one name, one without a name and one
\* whose name is null
Items ==
  { Item(1, Str(sTom)), Item(2, Str(sTom)), Item(3, Str(sAnn)),
    Obj(sId :> Num(4)), Item(5, Null) }

FindByValues == {Str(sTom), Str(sAnn), Str(<<"Z">>), Null, Undefined}

\* a === b, for values of which one is a string, null or undefined
StrictEquals(a, b) == a.t \in {"string", "null", "undefined"} /\ a = b

\* Find that returns the last match instead of the first
FindLast(arr, key, v) ==
  IF \E i \in 1..Len(arr) : StrictEquals(Get(arr[i], Str(key)), v)
  THEN arr[CHOOSE i \in 1..Len(arr) :
             /\ StrictEquals(Get(arr[i], Str(key)), v)
             /\ \A j \in (i + 1)..Len(arr) :
                  ~StrictEquals(Get(arr[j], Str(key)), v)]
  ELSE Undefined

\* arr.find((x) => x[key] === value)
Find(arr, key, v) ==
  IF \E i \in 1..Len(arr) : StrictEquals(Get(arr[i], Str(key)), v)
  THEN arr[CHOOSE i \in 1..Len(arr) :
             /\ StrictEquals(Get(arr[i], Str(key)), v)
             /\ \A j \in 1..(i - 1) : ~StrictEquals(Get(arr[j], Str(key)), v)]
  ELSE Undefined

\* what a transform did: the value it returned, the issues it added, the
\* calls of the inner schema, and whether an exception escaped
Transformed(res, iss, calls, threw) ==
  [result |-> res, issues |-> iss, innerCalls |-> calls, threw |-> threw]

\* the function that zt.findBy(key, arr) returns, applied to a value
findBy(key, arr, v) ==
  LET match == Find(arr, key, v)
  IN  IF Falsy(match) THEN Transformed(Never, 1, 0, FALSE)
      ELSE Transformed(match, 0, 0, FALSE)

\* the inner schemas: z.number(), z.object({ b: z.number() }) and
\* z.number().transform((n) => n + 1)
Schemas == {"number", "objectB", "numberPlusOne"}

\* schema.parse(v): the output, or ok = FALSE where it throws a ZodError
SchemaParse(schema, v) ==
  CASE schema = "number" -> [ok |-> v.t = "number", v |-> v]
    [] schema = "numberPlusOne" ->
         IF v.t = "number" THEN [ok |-> TRUE, v |-> Num(v.n + 1)]
         ELSE [ok |-> FALSE, v |-> v]
    [] schema = "objectB" ->
         IF v.t = "object" /\ MapGet(v.o, <<"b">>).t = "number"
         THEN [ok |-> TRUE, v |-> Obj(<<"b">> :> v.o[<<"b">>])]
         ELSE [ok |-> FALSE, v |-> v]

JsonTexts ==
  { <<"2", "3">>, <<"{", "\"", "b", "\"", ":", "1", "}">>,
    <<"{", "\"", "b", "\"", ":", "1", ",", "\"", "c", "\"", ":", "2", "}">>,
    <<"{", "\"", "b", "\"", ":", "\"", "x", "\"", "}">>,
    <<"n", "u", "l", "l">>, <<"x">>, <<>> }

JsonValues == {Null, Undefined} \cup {Str(x) : x \in JsonTexts}

\* json whose try block ends before schema.parse: a ZodError escapes
jsonUncaughtSchema(schema, v) ==
  IF IsNullish(v) THEN Transformed(v, 0, 0, FALSE)
  ELSE LET parsed == JSONParse(v.s)
       IN  IF ~parsed.ok THEN Transformed(Never, 1, 0, FALSE)
           ELSE LET out == SchemaParse(schema, parsed.v)
                IN  IF out.ok THEN Transformed(out.v, 0, 1, FALSE)
                    ELSE Transformed(Undefined, 0, 1, TRUE)

\* the function that zt.json(schema) returns, applied to a value
json(schema, v) ==
  IF IsNullish(v) THEN Transformed(v, 0, 0, FALSE)
  ELSE LET parsed == JSONParse(v.s)
       IN  IF ~parsed.ok THEN Transformed(Never, 1, 0, FALSE)
           ELSE LET out == SchemaParse(schema, parsed.v)
                IN  IF out.ok THEN Transformed(out.v, 0, 1, FALSE)
                    ELSE Transformed(Never, 1, 1, FALSE)

InitHelpers ==
  /\ \/ /\ api = "zt.findBy"
        /\ tValue \in FindByValues
        /\ \E arr \in SeqsUpTo(Items, MaxItems) :
             tParam = [key |-> sName, arr |-> arr]
     \/ /\ api = "zt.json"
        /\ tValue \in JsonValues
        /\ \E schema \in Schemas : tParam = [schema |-> schema]
  /\ pc = api
  /\ issues = 0
  /\ innerCalls = 0
  /\ tResult = Undefined
  /\ arg = "string"
  /\ request = Undefined
  /\ payload = <<>>
  /\ idx = 0
  /\ record = Undefined
  /\ before = Undefined
  /\ valueFnCalls = 0
  /\ bodyReads = 0
  /\ InitNoPaths

\* the transform ran: its effects on the ctx and its return
Ran(t) ==
  /\ tResult' = t.result
  /\ issues' = issues + t.issues
  /\ innerCalls' = innerCalls + t.innerCalls
  /\ pc' = IF t.threw THEN "threw" ELSE "done"
  /\ UNCHANGED <<callVars, pathVars, tValue, tParam>>

FindBy == pc = "zt.findBy" /\ Ran(findBy(tParam.key, tParam.arr, tValue))

Json == pc = "zt.json" /\ Ran(json(tParam.schema, tValue))

NextHelpers == FindBy \/ Json

SpecHelpers == InitHelpers /\ [][NextHelpers]_vars

(***************************************************************************)
(* Properties of the record builder.                                       *)
(***************************************************************************)
\* the value that a record holds at a path
RECURSIVE Lookup(_, _)
Lookup(v, paths) ==
  IF paths = <<>> THEN v
  ELSE IF IsNullish(v) THEN Undefined
  ELSE Lookup(Get(v, Head(paths)), Tail(paths))

SlotOf(key) == Lookup(record, getPaths(key))

\* a raw value is absent: the empty string, or a file with an empty name
\* and size 0
IsAbsent(value) ==
  \/ value.t = "string" /\ value.s = <<>>
  \/ value.t = "file" /\ value.name = <<>> /\ value.size = 0

IsPresentString(value) == value.t = "string" /\ value.s # <<>>

\* the payload repeats one key of SameKeys
OneKeyPayload ==
  /\ Len(payload) >= 1
  /\ payload[1].key \in SameKeys
  /\ \A i \in 1..Len(payload) : payload[i].key = payload[1].key

\* C1: merge-to-array law.  When toRecord has returned for a payload of
\* n >= 1 entries of one key p whose values are all non-empty strings, the
\* slot at p holds coerce(v1) if n = 1 and otherwise the array of exactly
\* the n values coerce(v1), ..., coerce(vn) in entry order.
C1_MergeToArrayLaw ==
  ( /\ pc = "parse"
    /\ OneKeyPayload
    /\ \A i \in 1..Len(payload) : IsPresentString(payload[i].value) )
  => SlotOf(payload[1].key) =
       IF Len(payload) = 1 THEN Coerce(payload[1].value)
       ELSE Arr([i \in 1..Len(payload) |-> Coerce(payload[i].value)])

\* C2: absent never overwrites.  When toRecord has returned for a payload
\* [(p, x), (p, absent)] or [(p, absent), (p, x)] with x present, the slot
\* at p holds exactly coerce(x); and, before any iteration of toRecord
\* whose slot holds a value, the iteration leaves the slot unchanged
\* exactly when the value of its entry is absent.
C2_AbsentNeverOverwrites ==
  /\ ( /\ pc = "parse"
       /\ OneKeyPayload
       /\ Len(payload) = 2
       /\ \E i \in 1..2 : /\ IsAbsent(payload[i].value)
                          /\ ~IsAbsent(payload[3 - i].value) )
     => \E i \in 1..2 : /\ ~IsAbsent(payload[i].value)
                        /\ SlotOf(payload[1].key) = Coerce(payload[i].value)
  /\ ( /\ pc = "toRecord"
       /\ idx < Len(payload)
       /\ OneKeyPayload
       /\ SlotOf(payload[1].key) # Undefined )
     => LET st == ToRecordStep(record, payload[idx + 1])
        IN  IsAbsent(payload[idx + 1].value)
              <=> Lookup(st.v, getPaths(payload[1].key)) = SlotOf(payload[1].key)

\* the coercion of a raw value as section 4.2 of the specification words it
SpecCoercion(value) ==
  IF IsAbsent(value) THEN Undefined
  ELSE IF value.t = "file" THEN value
  ELSE IF JSONParse(value.s).ok THEN JSONParse(value.s).v
  ELSE value

KeyOccursOnce(i) ==
  /\ payload[i].key # <<>>
  /\ \A j \in 1..Len(payload) : j # i => payload[j].key # payload[i].key

\* the keys of the payload parse to pairwise different paths, none of which
\* starts at a property of the transform argument
DistinctFreshPaths ==
  \A i \in 1..Len(payload) :
    /\ getPaths(payload[i].key) # <<>>
    /\ PropName(getPaths(payload[i].key)[1]) \notin {sPath, sAddIssue}
    /\ \A j \in 1..Len(payload) :
         j # i => getPaths(payload[j].key) # getPaths(payload[i].key)

\* C3: value coercion.  When toRecord has returned, the slot of every entry
\* whose key occurs once in the payload holds the absent marker if the raw
\* value is absent, the JSON-decoded value if the raw string is valid JSON,
\* the raw string if it is not, and the file itself for a non-empty file.
\* It is stated for the payloads whose keys parse to pairwise different
\* paths outside the properties of the transform argument, where no key
\* and no path is repeated.
C3_ValueCoercion ==
  (pc = "parse" /\ DistinctFreshPaths) =>
    \A i \in 1..Len(payload) :
      KeyOccursOnce(i) => SlotOf(payload[i].key) = SpecCoercion(payload[i].value)

\* the parts (name, digits, field) of a key name[digits].field
NestedParts(key) ==
  {q \in NestedNames \X NestedIndexes \X NestedFields :
     key = NestedKey(q[1], q[2], q[3])}

PartsOf(key) == CHOOSE q \in NestedParts(key) : TRUE

\* every key of the payload is name[i].field for one name, the pairs
\* (i, field) are pairwise distinct and every value is present
NestedPayload ==
  /\ Len(payload) >= 1
  /\ \A i \in 1..Len(payload) :
       /\ NestedParts(payload[i].key) # {}
       /\ PartsOf(payload[i].key)[1] = PartsOf(payload[1].key)[1]
       /\ ~IsAbsent(payload[i].value)
  /\ \A i, j \in 1..Len(payload) :
       i # j => \/ Number(PartsOf(payload[i].key)[2])
                     # Number(PartsOf(payload[j].key)[2])
                \/ PartsOf(payload[i].key)[3] # PartsOf(payload[j].key)[3]

\* C4: nested path assembly.  For every payload of entries name[i].field
\* with pairwise distinct (i, field) and present values, in any order,
\* toRecord returns and the record holds at name an array whose element i
\* is a mapping of exactly the fields of the entries of index i, each field
\* to the coerced value of its entry.
C4_NestedPathAssembly ==
  (pc \in {"parse", "threw"} /\ NestedPayload) =>
    /\ pc = "parse"
    /\ LET name == PartsOf(payload[1].key)[1]
           at == Lookup(record, <<Str(name)>>)
       IN  /\ at.t = "array"
           /\ \A i \in 1..Len(payload) :
                LET q == PartsOf(payload[i].key)
                    el == Get(at, Num(Number(q[2])))
                IN  /\ el.t = "object"
                    /\ Get(el, Str(q[3])) = Coerce(payload[i].value)
                    /\ DOMAIN el.o =
                         {PartsOf(payload[j].key)[3] :
                            j \in {k \in 1..Len(payload) :
                                     Number(PartsOf(payload[k].key)[2])
                                       = Number(q[2])}}

\* the entries of a sequence that have a key
WithKey(entries, k) == SelectSeq(entries, LAMBDA e : e.key = k)

\* C5: ordering in parseRequestAsync.  When toRecord has returned for a
\* multipart request, the payload is the form entries followed by the
\* query entries; a key that occurs once in the form and nowhere in the
\* query (or the converse) holds its coerced value, and a key that occurs
\* once in the form with a present value f and once in the query with a
\* present value q holds the array [f, q].
C5_FormThenQuery ==
  ( /\ api = "parseRequestAsync"
    /\ containsFormData(request)
    /\ pc = "parse" )
  => /\ payload = request.form \o request.query
     /\ \A k \in RequestKeys :
          LET f == WithKey(request.form, k)
              q == WithKey(request.query, k)
          IN  /\ (Len(f) = 1 /\ Len(q) = 0)
                   => SlotOf(k) = Coerce(f[1].value)
              /\ (Len(f) = 0 /\ Len(q) = 1)
                   => SlotOf(k) = Coerce(q[1].value)
              /\ ( /\ Len(f) = 1 /\ Len(q) = 1
                   /\ ~IsAbsent(f[1].value) /\ ~IsAbsent(q[1].value) )
                   => SlotOf(k) = Arr(<<Coerce(f[1].value), Coerce(q[1].value)>>)

\* a sequence with its entries k and k + 1 swapped
SwapAt(entries, k) ==
  [i \in 1..Len(entries) |->
     IF i = k THEN entries[k + 1]
     ELSE IF i = k + 1 THEN entries[k]
     ELSE entries[i]]

\* two results of toRecord are the same: both threw, or both returned the
\* same record (properties compared as a mapping, without their order)
SameResult(r1, r2) == r1.threw = r2.threw /\ (~r1.threw => r1.v = r2.v)

\* C10: order independence across paths.  When toRecord has ended for a
\* payload, swapping two adjacent entries whose keys parse to different
\* paths gives the same result.
C10_OrderIndependence ==
  pc \in {"parse", "threw"} =>
    \A k \in 1..(Len(payload) - 1) :
      getPaths(payload[k].key) # getPaths(payload[k + 1].key)
        => SameResult([threw |-> pc = "threw", v |-> record],
                      toRecord(SwapAt(payload, k), TransformArg))

(***************************************************************************)
(* Properties of parseRequestAsync, of the path functions and of the       *)
(* transforms.                                                             *)
(***************************************************************************)
\* the Content-Type header is present and contains multipart/form-data
HasMultipartContentType(req) ==
  req.contentType.t = "string" /\ Includes(req.contentType.s, sMultipart)

\* C6: delegation in parseRequestAsync.  For a request whose Content-Type
\* is missing or does not contain multipart/form-data the body is never
\* read, only the query entries reach toRecord and the call ends as
\* parseQueryAsync of the request ends; for a request whose Content-Type
\* contains it the body is read once and never twice.
C6_Delegation ==
  api = "parseRequestAsync" =>
    IF HasMultipartContentType(request)
    THEN /\ bodyReads <= 1
         /\ pc \in {"parseFormDataAsync", "toRecord", "parse", "threw"}
              => bodyReads = 1
    ELSE /\ bodyReads = 0
         /\ pc \in {"toRecord", "parse", "threw"} => payload = request.query
         /\ pc \in {"parse", "threw"}
              => SameResult([threw |-> pc = "threw", v |-> record],
                            toRecord(request.query, TransformArg))

\* a request with a Content-Type other than multipart/form-data, a body
\* and a query has been parsed
C6_Witness ==
  /\ api = "parseRequestAsync"
  /\ request.contentType.t = "string"
  /\ ~HasMultipartContentType(request)
  /\ request.form # <<>>
  /\ request.query # <<>>
  /\ pc = "parse"

IsFieldName(tok) ==
  tok # <<>> /\ \A i \in 1..Len(tok) : tok[i] \in WordChars

\* the token is fieldName? "[" digits "]"
IsIndexedToken(tok) ==
  \E e \in 1..Len(tok) :
    /\ tok[e] = "["
    /\ \A i \in 1..(e - 1) : tok[i] \in WordChars
    /\ Len(tok) >= e + 2
    /\ tok[Len(tok)] = "]"
    /\ \A i \in (e + 1)..(Len(tok) - 1) : tok[i] \in DigitChars

\* the digits of an indexed token
DigitsOf(tok) ==
  LET e == CHOOSE i \in 1..Len(tok) : tok[i] = "["
  IN  SubSeq(tok, e + 1, Len(tok) - 1)

\* segment ("." segment)* with segment = fieldName? "[" digits "]" | fieldName
InGrammar(s) ==
  /\ s # <<>>
  /\ \A i \in 1..Len(Split(s, ".")) :
       LET tok == Split(s, ".")[i] IN IsFieldName(tok) \/ IsIndexedToken(tok)

\* a string of the grammar whose indexes are written without leading zeros
\* and whose tokens [digits] without a name come first only
IsCanonical(s) ==
  /\ InGrammar(s)
  /\ \A i \in 1..Len(Split(s, ".")) :
       LET tok == Split(s, ".")[i]
       IN  IsIndexedToken(tok) =>
             /\ DigitsOf(tok) = NumberToString(Number(DigitsOf(tok)))
             /\ tok[1] = "[" => i = 1

\* C7 as stated: for every string s of the grammar,
\* formatPaths(getPaths(s)) = s.
C7_RoundTripAll ==
  (api = "getPaths" /\ pc = "done" /\ InGrammar(pathName))
    => pathText = pathName

\* C7 as amended: formatPaths(getPaths(s)) = s for every string s of the
\* grammar in which every index is written without leading zeros and a
\* token [digits] without a name is the first token only.
C7_RoundTripCanonical ==
  (api = "getPaths" /\ pc = "done" /\ IsCanonical(pathName))
    => pathText = pathName

\* a canonical string of two tokens, the second with an index, went
\* through getPaths and formatPaths
C7_Witness ==
  /\ api = "getPaths"
  /\ pc = "done"
  /\ IsCanonical(pathName)
  /\ Len(Split(pathName, ".")) = 2
  /\ IsIndexedToken(Split(pathName, ".")[2])
  /\ Len(pathList) >= 3

\* the positions of the items whose property key equals the value
Hits == {i \in 1..Len(tParam.arr) : Get(tParam.arr[i], Str(tParam.key)) = tValue}

\* C8: zt.findBy returns without throwing; if some item has item[key]
\* equal to the value it returns the first such item and reports no issue;
\* otherwise it reports exactly one issue and returns z.NEVER.
C8_FindBy ==
  (api = "zt.findBy" /\ pc # "zt.findBy") =>
    /\ pc = "done"
    /\ IF Hits # {}
       THEN /\ tResult = tParam.arr[CHOOSE i \in Hits : \A j \in Hits : i <= j]
            /\ issues = 0
       ELSE /\ tResult = Never
            /\ issues = 1

\* findBy returned the first of two matching items, which is not the first
\* item of the collection
C8_Witness ==
  /\ api = "zt.findBy"
  /\ pc = "done"
  /\ Cardinality(Hits) >= 2
  /\ 1 \notin Hits
  /\ tResult \in Items

\* C9: zt.json returns a null or undefined value unchanged, with no issue
\* and no call of the inner schema; for a string, if JSON decoding fails or
\* the inner schema rejects the decoded value it reports exactly one issue
\* and returns z.NEVER, and no exception escapes; otherwise it returns the
\* output of the inner schema and reports no issue.
C9_Json ==
  (api = "zt.json" /\ pc # "zt.json") =>
    /\ pc = "done"
    /\ IF tValue \in {Null, Undefined}
       THEN tResult = tValue /\ issues = 0 /\ innerCalls = 0
       ELSE LET decoded == JSONParse(tValue.s)
            IN  IF ~decoded.ok \/ ~SchemaParse(tParam.schema, decoded.v).ok
                THEN tResult = Never /\ issues = 1
                ELSE /\ tResult = SchemaParse(tParam.schema, decoded.v).v
                     /\ issues = 0

\* json decoded a string that the inner schema then rejected
C9_Witness ==
  /\ api = "zt.json"
  /\ pc = "done"
  /\ tValue.t = "string"
  /\ JSONParse(tValue.s).ok
  /\ ~SchemaParse(tParam.schema, JSONParse(tValue.s).v).ok
  /\ innerCalls = 1
  /\ tResult = Never

(***************************************************************************)
(* Properties of the root of the record, of getPaths on any key and of the *)
(* walk of setValue.                                                       *)
(***************************************************************************)
\* the top-level keys that the entries of a payload name
FirstSegments(entries) ==
  {PropName(getPaths(entries[i].key)[1]) :
     i \in {j \in 1..Len(entries) : getPaths(entries[j].key) # <<>>}}

\* C11: fresh empty root.  In every call of parseQueryAsync,
\* parseFormDataAsync and parseRequestAsync, toRecord starts from an empty
\* mapping of its own; the previous occupant that the first entry finds at
\* its path is absent; and the record handed to the schema has no top-level
\* key other than the first path segments of the entries of the call.
C11_FreshEmptyRoot ==
  /\ (pc = "toRecord" /\ idx = 0) => record = Obj(EmptyMap)
  /\ (pc \in {"toRecord", "parse"} /\ idx = 1)
       => Lookup(before, getPaths(payload[1].key)) = Undefined
  /\ pc = "parse" =>
       /\ record.t = "object"
       /\ DOMAIN record.o \subseteq FirstSegments(payload)

\* the segments of one token by the reference parser: name[digits] gives
\* name and the integer, [digits] the integer, any other token itself
RefPathsOfToken(tok) ==
  IF IsIndexedToken(tok)
  THEN LET e == CHOOSE i \in 1..Len(tok) : tok[i] = "["
       IN  IF e = 1 THEN <<Num(Number(DigitsOf(tok)))>>
           ELSE <<Str(SubSeq(tok, 1, e - 1)), Num(Number(DigitsOf(tok)))>>
  ELSE <<Str(tok)>>

RECURSIVE RefFlatMap(_)
RefFlatMap(tokens) ==
  IF tokens = <<>> THEN <<>>
  ELSE RefPathsOfToken(Head(tokens)) \o RefFlatMap(Tail(tokens))

\* the reference path parser of a non-empty key
RefPaths(name) == RefFlatMap(Split(name, "."))

\* C12: on every non-empty key getPaths returns what the reference parser
\* returns: per token of the split on ".", name and integer for a token
\* that is exactly name[digits], the integer for exactly [digits], and the
\* whole token as one field name otherwise, no character being dropped.
C12_GetPathsReference ==
  (api = "getPaths" /\ pc # "getPaths" /\ pathName # <<>>)
    => pathList = RefPaths(pathName)

\* an iteration of toRecord raised an exception
ToRecordThrew == pc = "threw" /\ before # Undefined

\* an iteration of toRecord has ended, by returning from setValue or by an
\* exception
IterationEnded == (pc \in {"toRecord", "parse"} /\ idx >= 1) \/ ToRecordThrew

\* the entry of the last iteration and the path of its key
LastEntry == IF pc = "threw" THEN payload[idx + 1] ELSE payload[idx]
LastPaths == getPaths(LastEntry.key)

\* the names of the properties that a value holds itself
OwnNames(v) ==
  CASE v.t \in {"object", "ctx"} -> DOMAIN v.o
    [] v.t = "array" ->
         {NumberToString(i - 1) : i \in {j \in 1..Len(v.e) : v.e[j] # Hole}}
           \cup DOMAIN v.p
    [] v.t \in {"file", "function"} -> DOMAIN v.p
    [] OTHER -> {}

\* new is old with at most the property name changed
Kept(old, new, name) ==
  /\ new.t = old.t
  /\ \A x \in OwnNames(old) \ {name} : Get(new, Str(x)) = Get(old, Str(x))

C14_AbsentKeepsStructure ==
  ( /\ IterationEnded
    /\ LastPaths # <<>>
    /\ PropName(LastPaths[1]) \notin {sPath, sAddIssue}
    /\ IsAbsent(LastEntry.value)
    /\ IsNullish(Lookup(before, LastPaths)) ) =>
    /\ pc # "threw"
    /\ Lookup(record, LastPaths) = Undefined
    /\ \A k \in 0..(Len(LastPaths) - 1) :
         LET node == Lookup(record, SubSeq(LastPaths, 1, k))
         IN  /\ node.t \in {"ctx", "object", "array", "file", "function"}
             /\ PropName(LastPaths[k + 1]) \in OwnNames(node)

\* C15: the empty key is a no-op.  getPaths of the empty string is the
\* empty sequence of segments, and an iteration of toRecord over an entry
\* whose key is the empty string returns without a call of the callback and
\* leaves the record as it was, whatever the value and the position of the
\* entry.
C15_EmptyKeyNoOp ==
  /\ getPaths(<<>>) = <<>>
  /\ (IterationEnded /\ LastEntry.key = <<>>) =>
       /\ pc # "threw"
       /\ valueFnCalls = 0
       /\ record = before

\* an entry with the empty key and a present value went through toRecord
\* after an entry that had filled the slot a
C15_Witness ==
  /\ pc \in {"toRecord", "parse"}
  /\ idx >= 2
  /\ payload[idx].key = <<>>
  /\ ~IsAbsent(payload[idx].value)
  /\ payload[idx - 1].key # <<>>
  /\ <<"a">> \in DOMAIN record.o
  /\ <<>> \notin DOMAIN record.o

\* C16: assembly is total.  No iteration of toRecord raises an exception,
\* also when the path of a key passes through a slot that an earlier entry
\* filled with a number, a string or null, so that toRecord reaches its
\* return for every payload.  It is stated for the keys that do not start
\* at a property of the transform argument.
C16_AssemblyTotal ==
  ~(ToRecordThrew /\ PropName(LastPaths[1]) \notin {sPath, sAddIssue})
====
